---------------------------- MODULE Spec2Model ----------------------------
(* The search-box widget of grizzly-greens, in its three variants:          *)
(*   "search"  src/search.js          (portal box, raw index entries)       *)
(*   "part0"   src/unnamed/part_000   (normalizing loader, loading flag)    *)
(*   "part1"   src/unnamed/part_001   (inline box, fetch at script start)   *)
(* Text values (titles, descriptions, urls, the input's value) are          *)
(* sequences of one-character strings.                                      *)
EXTENDS Integers, Sequences, FiniteSets, TLC

VARIABLES
  variant,      \* which of the three scripts the page runs
  items,        \* items (search.js, part_000) / indexItems (part_001)
  loaded,       \* loaded (search.js, part_000) / ready (part_001)
  loading,      \* loading (part_000 only)
  fetchState,   \* "idle" | "inflight" | "settled": the one fetch promise chain
  fetchCount,   \* number of fetch("/search-index.json") calls issued
  resp,         \* the response the fetch settled with (NoResp before)
  text,         \* input.value
  display,      \* box.style.display === "block" / box has class "open"
  openFlag,     \* open (part_000 only)
  content,      \* box.innerHTML: "blank" | "noresults" | "loading" | "rows"
  rows,         \* the rendered .search-item rows, in document order
  activeIndex,  \* activeIndex / active
  href,         \* window.location.href once the widget has navigated
  lastEvent,    \* the event or promise reaction handled last
  cbRuns,       \* calls of ensureLoaded's callback made by the last step
  itemsWrites,  \* assignments to items made so far
  threw,        \* the last step ended in an uncaught exception
  ranked,       \* the sorted candidate list of the last render / search
  query         \* the normalized query of the last render / search

vars == <<variant, items, loaded, loading, fetchState, fetchCount, resp, text,
          display, openFlag, content, rows, activeIndex, href, lastEvent,
          cbRuns, itemsWrites, threw, ranked, query>>

Variants == {"search", "part0", "part1"}

-----------------------------------------------------------------------------
(* Text                                                                     *)

\* JavaScript's undefined (a missing key of an index entry)
Undefined == <<"undefined">>

\* String(undefined)
UndefinedText == <<"u", "n", "d", "e", "f", "i", "n", "e", "d">>

EmptyText == <<>>

SlashUrl == <<"/">>

\* undefined and "" are the falsy values a field of an entry takes here
Truthy(s) == s # Undefined /\ s # EmptyText

\* a || b
Or(a, b) == IF Truthy(a) THEN a ELSE b

\* String(s == null ? "" : s)
StrOrEmpty(s) == IF s = Undefined THEN EmptyText ELSE s

\* String(s)
JsString(s) == IF s = Undefined THEN UndefinedText ELSE s

LowerChar(c) ==
  CASE c = "A" -> "a"
    [] c = "B" -> "b"
    [] c = "C" -> "c"
    [] OTHER -> c

\* String.prototype.toLowerCase
ToLowerCase(s) == [i \in DOMAIN s |-> LowerChar(s[i])]

IsSpace(c) == c = " "

RECURSIVE TrimStart(_)
TrimStart(s) ==
  IF s # <<>> /\ IsSpace(Head(s)) THEN TrimStart(Tail(s)) ELSE s

RECURSIVE TrimEnd(_)
TrimEnd(s) ==
  IF s # <<>> /\ IsSpace(s[Len(s)]) THEN TrimEnd(SubSeq(s, 1, Len(s) - 1)) ELSE s

\* a trim that returns the text as typed
Trim_asTyped(s) == s

\* String.prototype.trim
Trim(s) == TrimEnd(TrimStart(s))

\* String.prototype.indexOf, 0-based, -1 when q does not occur in t
IndexOf(t, q) ==
  LET hits == {i \in 1..(Len(t) - Len(q) + 1) : SubSeq(t, i, i + Len(q) - 1) = q}
  IN IF hits = {} THEN -1
     ELSE (CHOOSE i \in hits : \A j \in hits : i <= j) - 1

\* primary collation weight of a character: whitespace sorts before letters,
\* letters sort case-insensitively
PrimaryWeight(c) ==
  CASE c = " " -> 0
    [] c = "/" -> 1
    [] c \in {"a", "A"} -> 10
    [] c \in {"b", "B"} -> 11
    [] c \in {"c", "C"} -> 12
    [] c = "d" -> 13
    [] c = "e" -> 14
    [] c = "f" -> 15
    [] c = "i" -> 16
    [] c = "n" -> 17
    [] c = "u" -> 18
    [] OTHER -> 30

\* tertiary (case) weight: lower case sorts before upper case
CaseWeight(c) == IF c \in {"A", "B", "C"} THEN 1 ELSE 0

\* lexicographic comparison of two weight sequences: -1, 0 or 1
RECURSIVE SeqCompare(_, _)
SeqCompare(a, b) ==
  IF a = <<>> /\ b = <<>> THEN 0
  ELSE IF a = <<>> THEN -1
  ELSE IF b = <<>> THEN 1
  ELSE IF Head(a) < Head(b) THEN -1
  ELSE IF Head(a) > Head(b) THEN 1
  ELSE SeqCompare(Tail(a), Tail(b))

\* String.prototype.localeCompare: the primary weights decide, then case
LocaleCompare(a, b) ==
  LET p == SeqCompare([i \in DOMAIN a |-> PrimaryWeight(a[i])],
                      [i \in DOMAIN b |-> PrimaryWeight(b[i])])
  IN IF p # 0 THEN p
     ELSE SeqCompare([i \in DOMAIN a |-> CaseWeight(a[i])],
                     [i \in DOMAIN b |-> CaseWeight(b[i])])

-----------------------------------------------------------------------------
(* Index entries                                                            *)

\* an entry of the JSON index with none of the keys the scripts read;
\* nul marks the JSON value null
NoEntry ==
  [nul |-> FALSE,
   t |-> Undefined, title |-> Undefined, name |-> Undefined, h1 |-> Undefined,
   d |-> Undefined, description |-> Undefined, desc |-> Undefined,
   snippet |-> Undefined, summary |-> Undefined,
   u |-> Undefined, url |-> Undefined, href |-> Undefined, path |-> Undefined,
   link |-> Undefined]

NullEntry == [NoEntry EXCEPT !.nul = TRUE]

\* {t: t, d: d, u: u}
Rec(t, d, u) == [NoEntry EXCEPT !.t = t, !.d = d, !.u = u]

\* normUrl of part_000
normUrl(u) ==
  LET s == Trim(StrOrEmpty(u))
  IN IF s = EmptyText THEN SlashUrl ELSE s

\* the body of normalizeData's loop for one raw entry: <<>> when the entry is
\* skipped, else the one-element list of its {t, d, u}
normalizeEntry(x) ==
  IF x.nul THEN <<>>
  ELSE LET t0 == Or(x.t, Or(x.title, Or(x.name, Or(x.h1, EmptyText))))
           d0 == Or(x.d, Or(x.description, Or(x.desc, Or(x.snippet,
                   Or(x.summary, EmptyText)))))
           u0 == Or(x.u, Or(x.url, Or(x.href, Or(x.path, Or(x.link, EmptyText)))))
           t == Trim(StrOrEmpty(t0))
           d == Trim(StrOrEmpty(d0))
           u == normUrl(u0)
       IN IF t = EmptyText \/ u = EmptyText THEN <<>> ELSE <<Rec(t, d, u)>>

RECURSIVE normalizeList(_)
normalizeList(raw) ==
  IF raw = <<>> THEN <<>>
  ELSE normalizeEntry(Head(raw)) \o normalizeList(Tail(raw))

\* normalizeData of part_000: data is NoData (unparsable), or a payload
\* [shape, entries] with shape "object" ({items: [...]}) or "array"
normalizeData(data) ==
  LET raw == IF data.shape \in {"object", "array"} THEN data.entries ELSE <<>>
  IN normalizeList(raw)

\* (data && Array.isArray(data.items)) ? data.items : []   (search.js)
itemsOf_search(data) == IF data.shape = "object" THEN data.entries ELSE <<>>

\* (data && data.items) ? data.items : []   (part_001)
itemsOf_part1(data) == IF data.shape = "object" THEN data.entries ELSE <<>>

-----------------------------------------------------------------------------
(* Scoring                                                                  *)

ExactScore == 1000
PrefixSearch == 800
ContainsSearch == 600
PrefixPart0 == 850
ContainsPart0 == 650
PrefixPart1 == 800
ContainsPart1 == 600
DescScore == 300
NoMatchScore == 0
NoMatchPart1 == -1
TopSearch == 10
TopPart0 == 10
TopPart1 == 8

\* score(q, t, d) of search.js
score_search(q, t, d) ==
  LET ql == ToLowerCase(q)
      tl == ToLowerCase(Or(t, EmptyText))
      dl == ToLowerCase(Or(d, EmptyText))
  IN IF ql = EmptyText THEN NoMatchScore
     ELSE IF tl = ql THEN ExactScore
     ELSE IF IndexOf(tl, ql) = 0 THEN PrefixSearch
     ELSE IF IndexOf(tl, ql) # -1 THEN ContainsSearch
     ELSE IF IndexOf(dl, ql) # -1 THEN DescScore
     ELSE NoMatchScore

\* score of part_000 with the substring test placed ahead of the prefix test
score_part0_substringFirst(q, t, d) ==
  LET ql == ToLowerCase(q)
      tl == ToLowerCase(Or(t, EmptyText))
      dl == ToLowerCase(Or(d, EmptyText))
  IN IF ql = EmptyText THEN NoMatchScore
     ELSE IF tl = ql THEN ExactScore
     ELSE IF IndexOf(tl, ql) # -1 THEN ContainsPart0
     ELSE IF IndexOf(tl, ql) = 0 THEN PrefixPart0
     ELSE IF IndexOf(dl, ql) # -1 THEN DescScore
     ELSE NoMatchScore

\* score(q, t, d) of part_000
score_part0(q, t, d) ==
  LET ql == ToLowerCase(q)
      tl == ToLowerCase(Or(t, EmptyText))
      dl == ToLowerCase(Or(d, EmptyText))
  IN IF ql = EmptyText THEN NoMatchScore
     ELSE IF tl = ql THEN ExactScore
     ELSE IF IndexOf(tl, ql) = 0 THEN PrefixPart0
     ELSE IF IndexOf(tl, ql) # -1 THEN ContainsPart0
     ELSE IF IndexOf(dl, ql) # -1 THEN DescScore
     ELSE NoMatchScore

\* norm(s) of part_001
norm(s) == Trim(ToLowerCase(JsString(Or(s, EmptyText))))

\* scoreItem(q, item) of part_001
scoreItem(q, item) ==
  LET t == norm(item.t)
      d == norm(item.d)
  IN IF q = EmptyText THEN NoMatchPart1
     ELSE IF t = q THEN ExactScore
     ELSE IF IndexOf(t, q) = 0 THEN PrefixPart1
     ELSE IF IndexOf(t, q) # -1 THEN ContainsPart1
     ELSE IF d # EmptyText /\ IndexOf(d, q) # -1 THEN DescScore
     ELSE NoMatchPart1

\* the score the variant's loop computes for one item
ScoreOf(v, q, it) ==
  CASE v = "search" -> score_search(q, it.t, it.d)
    [] v = "part0" -> score_part0(q, it.t, it.d)
    [] v = "part1" -> scoreItem(q, it)

\* the loop's test for pushing a candidate: s > 0, or s >= 0 in part_001
IsCandidate(v, s) == IF v = "part1" THEN s >= 0 ELSE s > 0

\* the loop building ranked / scored, in index order
RECURSIVE Candidates(_, _, _)
Candidates(v, q, its) ==
  IF its = <<>> THEN <<>>
  ELSE LET s == ScoreOf(v, q, Head(its))
       IN (IF IsCandidate(v, s) THEN <<[s |-> s, it |-> Head(its)]>> ELSE <<>>)
            \o Candidates(v, q, Tail(its))

\* the comparator given to Array.prototype.sort; part_001 alone breaks ties
compareFn(v, a, b) ==
  IF v = "part1"
  THEN IF b.s # a.s THEN b.s - a.s
       ELSE LocaleCompare(JsString(a.it.t), JsString(b.it.t))
  ELSE b.s - a.s

\* Array.prototype.sort is stable: x goes behind every element that does not
\* have to follow it
RECURSIVE InsertStable(_, _, _)
InsertStable(v, sorted, x) ==
  IF sorted = <<>> THEN <<x>>
  ELSE IF compareFn(v, Head(sorted), x) > 0 THEN <<x>> \o sorted
  ELSE <<Head(sorted)>> \o InsertStable(v, Tail(sorted), x)

RECURSIVE SortFrom(_, _, _)
SortFrom(v, sorted, rest) ==
  IF rest = <<>> THEN sorted
  ELSE SortFrom(v, InsertStable(v, sorted, Head(rest)), Tail(rest))

Sort(v, cands) == SortFrom(v, <<>>, cands)

\* a.t.localeCompare(b.t) is a TypeError when a.t is undefined; which of two
\* tied candidates the engine passes as a is its own choice
SortCanThrow(v, cands) ==
  /\ v = "part1"
  /\ \E i, j \in DOMAIN cands :
       /\ i # j
       /\ cands[i].s = cands[j].s
       /\ cands[i].it.t = Undefined

\* ranked.slice(0, K)
TopK(v) ==
  CASE v = "search" -> TopSearch
    [] v = "part0" -> TopPart0
    [] v = "part1" -> TopPart1

Slice(s, k) == SubSeq(s, 1, IF Len(s) < k THEN Len(s) ELSE k)

-----------------------------------------------------------------------------
(* The page's state as one record, so that handlers compose as the calls do *)

NoNav == <<"none">>

NoResp == [net |-> FALSE, ok |-> FALSE, json |-> FALSE, shape |-> "pending",
           entries |-> <<>>]

Cur ==
  [items |-> items, loaded |-> loaded, loading |-> loading,
   fetchState |-> fetchState, fetchCount |-> fetchCount, resp |-> resp,
   display |-> display, openFlag |-> openFlag, content |-> content,
   rows |-> rows, activeIndex |-> activeIndex, href |-> href,
   cbRuns |-> 0, threw |-> FALSE, itemsWrites |-> itemsWrites,
   ranked |-> ranked, query |-> query]

\* an item the loop cannot read: it.t of null is a TypeError
HasNull(its) == \E i \in DOMAIN its : its[i].nul

-----------------------------------------------------------------------------
(* src/search.js                                                            *)

openBox_search(st) == [st EXCEPT !.display = TRUE]

closeBox_search(st) ==
  [st EXCEPT !.activeIndex = -1, !.display = FALSE, !.content = "blank",
             !.rows = <<>>]

\* one rendered .search-item: its escaped title, description and data-url
row_search(r) ==
  [t |-> StrOrEmpty(r.t), d |-> StrOrEmpty(Or(r.d, EmptyText)),
   u |-> Or(r.u, SlashUrl)]

setActive_search(st, i) == [st EXCEPT !.activeIndex = i]

\* go that leaves for the site root whatever row was picked
go_search_toRoot(st, url) == [st EXCEPT !.href = SlashUrl]

go_search(st, url) == IF ~Truthy(url) THEN st ELSE [st EXCEPT !.href = url]

render_search(st, q0) ==
  LET q == Trim(Or(q0, EmptyText))
  IN IF q = EmptyText
     THEN [closeBox_search(st) EXCEPT !.ranked = <<>>, !.query = EmptyText]
     ELSE IF HasNull(st.items) THEN [st EXCEPT !.threw = TRUE]
     ELSE LET rk == Sort("search", Candidates("search", q, st.items))
              top == Slice(rk, TopSearch)
              st1 == [st EXCEPT !.ranked = rk, !.query = ToLowerCase(q)]
          IN IF Len(top) = 0
             THEN openBox_search([st1 EXCEPT !.content = "noresults", !.rows = <<>>])
             ELSE openBox_search(setActive_search(
                    [st1 EXCEPT !.content = "rows",
                                !.rows = [j \in DOMAIN top |-> row_search(top[j].it)]],
                    -1))

\* the callback every caller passes: function () { render(input.value); }
cb_search(st, txt) == [render_search(st, txt) EXCEPT !.cbRuns = @ + 1]

ensureLoaded_search(st, txt) ==
  IF st.loaded THEN cb_search(st, txt)
  ELSE [st EXCEPT !.loaded = TRUE, !.fetchState = "inflight",
                  !.fetchCount = @ + 1]

\* the reactions of the promise chain to the response r
settle_search(st, r, txt) ==
  LET s0 == [st EXCEPT !.fetchState = "settled", !.resp = r]
      caught(s) == cb_search([s EXCEPT !.items = <<>>, !.itemsWrites = @ + 1,
                                       !.threw = FALSE], txt)
  IN IF ~r.net \/ ~r.json THEN caught(s0)
     ELSE LET s1 == [s0 EXCEPT !.items = itemsOf_search(r), !.itemsWrites = @ + 1]
              s2 == cb_search(s1, txt)
          IN IF s2.threw THEN caught(s2) ELSE s2

keydown_search(st, key, txt) ==
  IF ~st.display
  THEN IF key = "Enter" THEN ensureLoaded_search(st, txt) ELSE st
  ELSE LET n == Len(st.rows)
       IN CASE key = "Escape" -> closeBox_search(st)
            [] key = "ArrowDown" ->
                 IF n = 0 THEN st
                 ELSE setActive_search(st,
                        IF st.activeIndex + 1 >= n THEN n - 1 ELSE st.activeIndex + 1)
            [] key = "ArrowUp" ->
                 IF n = 0 THEN st
                 ELSE setActive_search(st,
                        IF st.activeIndex - 1 < 0 THEN 0 ELSE st.activeIndex - 1)
            [] key = "Enter" ->
                 IF n = 0 THEN st
                 ELSE LET k == IF st.activeIndex >= 0 THEN st.activeIndex ELSE 0
                      IN IF k < n THEN go_search(st, st.rows[k + 1].u) ELSE st
            [] OTHER -> st

-----------------------------------------------------------------------------
(* src/unnamed/part_000                                                     *)

openBox_part0(st) == [st EXCEPT !.display = TRUE, !.openFlag = TRUE]

closeBox_part0(st) ==
  [st EXCEPT !.activeIndex = -1, !.openFlag = FALSE, !.display = FALSE,
             !.content = "blank", !.rows = <<>>]

row_part0(r) ==
  [t |-> StrOrEmpty(r.t), d |-> StrOrEmpty(Or(r.d, EmptyText)),
   u |-> Or(r.u, SlashUrl)]

setActive_part0(st, i) == [st EXCEPT !.activeIndex = i]

go_part0(st, url) ==
  LET u == normUrl(url)
  IN IF ~Truthy(u) THEN st ELSE [st EXCEPT !.href = u]

render_part0(st, q0) ==
  LET q == Trim(StrOrEmpty(q0))
  IN IF q = EmptyText
     THEN [closeBox_part0(st) EXCEPT !.ranked = <<>>, !.query = EmptyText]
     ELSE IF HasNull(st.items) THEN [st EXCEPT !.threw = TRUE]
     ELSE LET rk == Sort("part0", Candidates("part0", q, st.items))
              top == Slice(rk, TopPart0)
              st1 == [st EXCEPT !.ranked = rk, !.query = ToLowerCase(q)]
          IN IF Len(top) = 0
             THEN openBox_part0([st1 EXCEPT !.content = "noresults", !.rows = <<>>])
             ELSE openBox_part0(setActive_part0(
                    [st1 EXCEPT !.content = "rows",
                                !.rows = [j \in DOMAIN top |-> row_part0(top[j].it)]],
                    -1))

cb_part0(st, txt) == [render_part0(st, txt) EXCEPT !.cbRuns = @ + 1]

\* ensureLoaded of part_000 without its test of the loading flag
ensureLoaded_part0_noLoadingTest(st, txt) ==
  IF st.loaded THEN cb_part0(st, txt)
  ELSE [st EXCEPT !.loading = TRUE, !.fetchState = "inflight",
                  !.fetchCount = @ + 1]

ensureLoaded_part0(st, txt) ==
  IF st.loaded THEN cb_part0(st, txt)
  ELSE IF st.loading THEN cb_part0(st, txt)
  ELSE [st EXCEPT !.loading = TRUE, !.fetchState = "inflight",
                  !.fetchCount = @ + 1]

\* settle whose failure handler leaves the loading flag set
settle_part0_catchKeepsLoading(st, r, txt) ==
  LET s0 == [st EXCEPT !.fetchState = "settled", !.resp = r]
      caught(s) == cb_part0([s EXCEPT !.items = <<>>, !.itemsWrites = @ + 1,
                                      !.loaded = TRUE, !.threw = FALSE], txt)
  IN IF ~r.net \/ ~r.ok \/ ~r.json THEN caught(s0)
     ELSE LET s1 == [s0 EXCEPT !.items = normalizeData(r), !.itemsWrites = @ + 1,
                               !.loaded = TRUE, !.loading = FALSE]
              s2 == cb_part0(s1, txt)
          IN IF s2.threw THEN caught(s2) ELSE s2

settle_part0(st, r, txt) ==
  LET s0 == [st EXCEPT !.fetchState = "settled", !.resp = r]
      caught(s) == cb_part0([s EXCEPT !.items = <<>>, !.itemsWrites = @ + 1,
                                      !.loaded = TRUE, !.loading = FALSE,
                                      !.threw = FALSE], txt)
  IN IF ~r.net \/ ~r.ok \/ ~r.json THEN caught(s0)
     ELSE LET s1 == [s0 EXCEPT !.items = normalizeData(r), !.itemsWrites = @ + 1,
                               !.loaded = TRUE, !.loading = FALSE]
              s2 == cb_part0(s1, txt)
          IN IF s2.threw THEN caught(s2) ELSE s2

\* keydown whose ArrowDown wraps from the last row to the first
keydown_part0_wrapDown(st, key, txt) ==
  IF ~(st.openFlag /\ st.display)
  THEN CASE key = "Enter" -> ensureLoaded_part0(st, txt)
         [] key = "Escape" -> closeBox_part0(st)
         [] OTHER -> st
  ELSE LET n == Len(st.rows)
       IN CASE key = "Escape" -> closeBox_part0(st)
            [] key = "ArrowDown" ->
                 IF n = 0 THEN st
                 ELSE setActive_part0(st,
                        IF st.activeIndex + 1 >= n THEN 0 ELSE st.activeIndex + 1)
            [] key = "ArrowUp" ->
                 IF n = 0 THEN st
                 ELSE setActive_part0(st,
                        IF st.activeIndex - 1 < 0 THEN 0 ELSE st.activeIndex - 1)
            [] key = "Enter" ->
                 IF n = 0 THEN st
                 ELSE LET k == IF st.activeIndex >= 0 THEN st.activeIndex ELSE 0
                      IN IF k < n THEN go_part0(st, st.rows[k + 1].u) ELSE st
            [] OTHER -> st

keydown_part0(st, key, txt) ==
  IF ~(st.openFlag /\ st.display)
  THEN CASE key = "Enter" -> ensureLoaded_part0(st, txt)
         [] key = "Escape" -> closeBox_part0(st)
         [] OTHER -> st
  ELSE LET n == Len(st.rows)
       IN CASE key = "Escape" -> closeBox_part0(st)
            [] key = "ArrowDown" ->
                 IF n = 0 THEN st
                 ELSE setActive_part0(st,
                        IF st.activeIndex + 1 >= n THEN n - 1 ELSE st.activeIndex + 1)
            [] key = "ArrowUp" ->
                 IF n = 0 THEN st
                 ELSE setActive_part0(st,
                        IF st.activeIndex - 1 < 0 THEN 0 ELSE st.activeIndex - 1)
            [] key = "Enter" ->
                 IF n = 0 THEN st
                 ELSE LET k == IF st.activeIndex >= 0 THEN st.activeIndex ELSE 0
                      IN IF k < n THEN go_part0(st, st.rows[k + 1].u) ELSE st
            [] OTHER -> st

-----------------------------------------------------------------------------
(* src/unnamed/part_001                                                     *)

openBox_part1(st) == [st EXCEPT !.display = TRUE]

closeBox_part1(st) ==
  [st EXCEPT !.display = FALSE, !.content = "blank", !.rows = <<>>,
             !.activeIndex = -1]

\* one row of renderList: escapeHtml is String(s) with the markup replaced
row_part1(r) ==
  [t |-> JsString(r.t), d |-> IF Truthy(r.d) THEN JsString(r.d) ELSE EmptyText,
   u |-> JsString(r.u)]

renderEmpty(st) ==
  openBox_part1([st EXCEPT !.content = "noresults", !.rows = <<>>])

\* renderList that keeps the active row of the previous list
renderList_keepsActive(st, results) ==
  openBox_part1([st EXCEPT !.content = "rows",
                           !.rows = [j \in DOMAIN results |-> row_part1(results[j].it)]])

renderList(st, results) ==
  [openBox_part1([st EXCEPT !.content = "rows",
                            !.rows = [j \in DOMAIN results |-> row_part1(results[j].it)]])
     EXCEPT !.activeIndex = -1]

setActive_part1(st, i) ==
  IF i >= 0 /\ i < Len(st.rows) THEN [st EXCEPT !.activeIndex = i]
  ELSE [st EXCEPT !.activeIndex = -1]

goActive(st) ==
  IF st.activeIndex < 0 \/ st.activeIndex >= Len(st.rows) THEN st
  ELSE LET u == st.rows[st.activeIndex + 1].u
       IN IF Truthy(u) THEN [st EXCEPT !.href = u] ELSE st

\* search(q); sortThrows is the engine's choice where SortCanThrow
search_part1(st, q0, sortThrows) ==
  LET q == norm(q0)
  IN IF q = EmptyText
     THEN [closeBox_part1(st) EXCEPT !.ranked = <<>>, !.query = EmptyText]
     ELSE IF ~st.loaded
     THEN openBox_part1([st EXCEPT !.content = "loading", !.rows = <<>>,
                                   !.ranked = <<>>, !.query = q])
     ELSE IF HasNull(st.items) \/ sortThrows THEN [st EXCEPT !.threw = TRUE]
     ELSE LET scored == Sort("part1", Candidates("part1", q, st.items))
              top == Slice(scored, TopPart1)
              st1 == [st EXCEPT !.ranked = scored, !.query = q]
          IN IF Len(top) = 0 THEN renderEmpty(st1) ELSE renderList(st1, top)

\* whether the sort of search(q0) can end in a TypeError
SortThrowChoices(st, q0) ==
  IF /\ norm(q0) # EmptyText
     /\ st.loaded
     /\ ~HasNull(st.items)
     /\ SortCanThrow("part1", Candidates("part1", norm(q0), st.items))
  THEN {TRUE, FALSE}
  ELSE {FALSE}

\* the reactions of the promise chain started at script load
settle_part1(st, r) ==
  LET s0 == [st EXCEPT !.fetchState = "settled", !.resp = r]
  IN IF ~r.net \/ ~r.json THEN [s0 EXCEPT !.loaded = FALSE]
     ELSE [s0 EXCEPT !.items = itemsOf_part1(r), !.itemsWrites = @ + 1,
                     !.loaded = TRUE]

\* keydown whose Enter falls back to the first row when none is active
keydown_part1_firstRowDefault(st, key) ==
  IF ~st.display THEN st
  ELSE LET n == Len(st.rows)
       IN CASE key = "ArrowDown" ->
                 IF n = 0 THEN st
                 ELSE setActive_part1(st,
                        IF st.activeIndex + 1 >= n THEN 0 ELSE st.activeIndex + 1)
            [] key = "ArrowUp" ->
                 IF n = 0 THEN st
                 ELSE setActive_part1(st,
                        IF st.activeIndex - 1 < 0 THEN n - 1 ELSE st.activeIndex - 1)
            [] key = "Enter" ->
                 IF n = 0 THEN st
                 ELSE goActive([st EXCEPT !.activeIndex =
                                  IF st.activeIndex >= 0 THEN st.activeIndex ELSE 0])
            [] key = "Escape" -> closeBox_part1(st)
            [] OTHER -> st

keydown_part1(st, key) ==
  IF ~st.display THEN st
  ELSE LET n == Len(st.rows)
       IN CASE key = "ArrowDown" ->
                 IF n = 0 THEN st
                 ELSE setActive_part1(st,
                        IF st.activeIndex + 1 >= n THEN 0 ELSE st.activeIndex + 1)
            [] key = "ArrowUp" ->
                 IF n = 0 THEN st
                 ELSE setActive_part1(st,
                        IF st.activeIndex - 1 < 0 THEN n - 1 ELSE st.activeIndex - 1)
            [] key = "Enter" ->
                 IF st.activeIndex >= 0 THEN goActive(st) ELSE st
            [] key = "Escape" -> closeBox_part1(st)
            [] OTHER -> st

-----------------------------------------------------------------------------
(* Inputs                                                                   *)

\* the longest index the fetch returns
MaxEntries == 2

\* the values the user gives the input
Texts == {<<>>, <<" ">>, <<"a">>, <<"A", " ">>, <<"b">>}

Keys == {"Enter", "Escape", "ArrowDown", "ArrowUp"}

\* index entries: well-formed, under alias keys, without a url, null, and
\* with an empty title
Entries ==
  {Rec(<<"a">>, <<"b">>, <<"/", "a">>),
   [NoEntry EXCEPT !.title = <<"A", "b">>, !.url = <<"/", "b">>],
   Rec(<<"b", "a">>, Undefined, Undefined),
   NullEntry,
   [NoEntry EXCEPT !.title = EmptyText, !.d = <<"a">>, !.u = <<"/", "x">>]}

SeqsUpTo(S, n) == UNION {[1..k -> S] : k \in 0..n}

\* what the fetch can settle with: a network rejection, or a response with an
\* ok or non-ok status whose body is unparsable, {items: [...]} or [...]
ResponsesOver(lists) ==
  {[net |-> FALSE, ok |-> FALSE, json |-> FALSE, shape |-> "none", entries |-> <<>>]}
  \cup {[net |-> TRUE, ok |-> o, json |-> FALSE, shape |-> "none", entries |-> <<>>] :
          o \in BOOLEAN}
  \cup {[net |-> TRUE, ok |-> o, json |-> TRUE, shape |-> sh, entries |-> es] :
          o \in BOOLEAN, sh \in {"object", "array"}, es \in lists}

Responses == ResponsesOver(SeqsUpTo(Entries, MaxEntries))

-----------------------------------------------------------------------------
(* The state machine                                                        *)

Init ==
  /\ variant \in Variants
  /\ items = <<>>
  /\ loaded = FALSE
  /\ loading = FALSE
  /\ fetchState = IF variant = "part1" THEN "inflight" ELSE "idle"
  /\ fetchCount = IF variant = "part1" THEN 1 ELSE 0
  /\ resp = NoResp
  /\ text = EmptyText
  /\ display = FALSE
  /\ openFlag = FALSE
  /\ content = "blank"
  /\ rows = <<>>
  /\ activeIndex = -1
  /\ href = NoNav
  /\ lastEvent = "init"
  /\ cbRuns = 0
  /\ itemsWrites = 0
  /\ threw = FALSE
  /\ ranked = <<>>
  /\ query = EmptyText

\* the page after a handler has run to completion
Apply(st, ev, txt) ==
  /\ items' = st.items
  /\ loaded' = st.loaded
  /\ loading' = st.loading
  /\ fetchState' = st.fetchState
  /\ fetchCount' = st.fetchCount
  /\ resp' = st.resp
  /\ text' = txt
  /\ display' = st.display
  /\ openFlag' = st.openFlag
  /\ content' = st.content
  /\ rows' = st.rows
  /\ activeIndex' = st.activeIndex
  /\ href' = st.href
  /\ lastEvent' = ev
  /\ cbRuns' = st.cbRuns
  /\ itemsWrites' = st.itemsWrites
  /\ threw' = st.threw
  /\ ranked' = st.ranked
  /\ query' = st.query
  /\ UNCHANGED variant

\* input "focus" listener (part_001 has none)
Focus ==
  /\ href = NoNav
  /\ Apply(CASE variant = "search" -> ensureLoaded_search(Cur, text)
             [] variant = "part0" -> ensureLoaded_part0(Cur, text)
             [] variant = "part1" -> Cur,
           "focus", text)

\* input "input" listener, the value having changed to t
Input ==
  /\ href = NoNav
  /\ \E t \in Texts :
       /\ t # text
       /\ \E b \in (IF variant = "part1" THEN SortThrowChoices(Cur, t) ELSE {FALSE}) :
            Apply(CASE variant = "search" -> ensureLoaded_search(Cur, t)
                    [] variant = "part0" -> ensureLoaded_part0(Cur, t)
                    [] variant = "part1" -> search_part1(Cur, t, b),
                  "input", t)

\* input "keydown" listener
KeyDown ==
  /\ href = NoNav
  /\ \E k \in Keys :
       Apply(CASE variant = "search" -> keydown_search(Cur, k, text)
               [] variant = "part0" -> keydown_part0(Cur, k, text)
               [] variant = "part1" -> keydown_part1(Cur, k),
             k, text)

\* box "mousedown" listener, on the i-th rendered row
RowMouseDown ==
  /\ href = NoNav
  /\ display
  /\ \E i \in DOMAIN rows :
       Apply(CASE variant = "search" -> go_search(Cur, rows[i].u)
               [] variant = "part0" -> go_part0(Cur, rows[i].u)
               [] variant = "part1" ->
                    IF Truthy(rows[i].u) THEN [Cur EXCEPT !.href = rows[i].u] ELSE Cur,
             "rowpress", text)

\* document "mousedown" / "click" listener, outside the input and the box
OutsideMouseDown ==
  /\ href = NoNav
  /\ Apply(CASE variant = "search" -> closeBox_search(Cur)
             [] variant = "part0" -> closeBox_part0(Cur)
             [] variant = "part1" -> closeBox_part1(Cur),
           "outside", text)

\* the fetch settles with r and the promise chain's reactions run
Settle(r) ==
  /\ href = NoNav
  /\ fetchState = "inflight"
  /\ Apply(CASE variant = "search" -> settle_search(Cur, r, text)
             [] variant = "part0" -> settle_part0(Cur, r, text)
             [] variant = "part1" -> settle_part1(Cur, r),
           "settle", text)

FetchSettle == \E r \in Responses : Settle(r)

Next ==
  \/ Focus
  \/ Input
  \/ KeyDown
  \/ RowMouseDown
  \/ OutsideMouseDown
  \/ FetchSettle

Spec == Init /\ [][Next]_vars

-----------------------------------------------------------------------------
(* The same machine fed with well-formed indexes that exercise the ranking: *)
(* every short list of ranking entries, and long lists of up to MaxPad      *)
(* copies of one entry followed by another                                  *)

MaxRankLen == 2

MaxPad == 10

RankEntries ==
  {Rec(<<"a">>, EmptyText, <<"/", "1">>),
   Rec(<<"a", "c">>, EmptyText, <<"/", "2">>),
   Rec(<<"a", "b">>, EmptyText, <<"/", "3">>),
   Rec(<<"b", "a">>, EmptyText, <<"/", "4">>),
   Rec(<<"c">>, <<"a">>, <<"/", "5">>),
   Rec(<<" ", "A">>, EmptyText, <<"/", "6">>)}

PaddedLists ==
  {[i \in 1..(n + 1) |-> IF i <= n THEN e1 ELSE e2] :
     n \in 1..MaxPad, e1 \in RankEntries, e2 \in RankEntries}

RankResponses ==
  {[net |-> TRUE, ok |-> TRUE, json |-> TRUE, shape |-> "object", entries |-> es] :
     es \in SeqsUpTo(RankEntries, MaxRankLen) \cup PaddedLists}

FetchSettleRank == \E r \in RankResponses : Settle(r)

NextRank ==
  \/ Focus
  \/ Input
  \/ FetchSettleRank

SpecRank == Init /\ [][NextRank]_vars

-----------------------------------------------------------------------------
(* Properties                                                               *)

\* text that trims to the empty string
IsBlank(s) == \A i \in DOMAIN s : s[i] = " "

StartsWith(t, q) == Len(q) <= Len(t) /\ SubSeq(t, 1, Len(q)) = q

Occurs(t, q) ==
  \E i \in 1..Len(t) : i + Len(q) - 1 <= Len(t) /\ SubSeq(t, i, i + Len(q) - 1) = q

\* the title and description of an item as the variant compares them
ComparedTitle(v, it) ==
  IF v = "part1" THEN norm(it.t) ELSE ToLowerCase(StrOrEmpty(it.t))

ComparedDesc(v, it) ==
  IF v = "part1" THEN norm(it.d) ELSE ToLowerCase(StrOrEmpty(it.d))

\* the strongest class an item falls in for the non-empty query q
ClassOf(v, q, it) ==
  LET t == ComparedTitle(v, it)
      d == ComparedDesc(v, it)
  IN IF t = q THEN "exact"
     ELSE IF StartsWith(t, q) THEN "prefix"
     ELSE IF Occurs(t, q) THEN "inner"
     ELSE IF Occurs(d, q) THEN "desc"
     ELSE "none"

\* the score the claim gives each class
ClassScore(v, c) ==
  CASE c = "exact" -> 1000
    [] c = "prefix" -> IF v = "part0" THEN 850 ELSE 800
    [] c = "inner" -> IF v = "part0" THEN 650 ELSE 600
    [] c = "desc" -> 300
    [] c = "none" -> -2

\* a render / search has scored the items for a non-empty query and shown
\* the outcome
Scored == query # EmptyText /\ content \in {"rows", "noresults"}

\* C1: whatever focus, input and Enter events arrive, before, while and after
\* the index fetch is in flight, at most one request for the index is issued.
C1_AtMostOneFetch == fetchCount <= 1

\* C1's case: the fetch has failed, and an Enter on the closed box has called
\* ensureLoaded again
C1_Witness ==
  /\ fetchState = "settled"
  /\ ~resp.net
  /\ lastEvent = "Enter"
  /\ cbRuns = 1
  /\ fetchCount = 1

\* C2: a callback given to ensureLoaded while the fetch is in flight is not
\* run before the fetch has settled (so it never sees the pre-load list).
C2_CallbackAwaitsFetch == ~(cbRuns > 0 /\ fetchState = "inflight")

\* C3: once the fetch has failed (rejection or unparsable body), a search for
\* a non-empty query ends in the open "no results" state with an empty ranked
\* list: no exception, no loading indicator.
C3_FailureGivesNoResults ==
  (/\ fetchState = "settled"
   /\ (~resp.net \/ ~resp.json)
   /\ lastEvent = "input"
   /\ ~IsBlank(text))
  => (/\ display
      /\ content = "noresults"
      /\ rows = <<>>
      /\ ranked = <<>>
      /\ ~threw)

\* C4: when the load settles with text in the input, the search is re-run
\* with that text: the panel shows the ranking of the loaded items for it.
C4_RerunAtSettle ==
  (lastEvent = "settle" /\ ~IsBlank(text))
  => (/\ display
      /\ content \in {"rows", "noresults"}
      /\ query = ToLowerCase(Trim(text))
      /\ (content = "rows") = (ranked # <<>>)
      /\ \A i \in DOMAIN rows : rows[i].u = JsString(Or(ranked[i].it.u, SlashUrl)))

\* C5: the rendered rows are in descending order of score, and rows of equal
\* score are in ascending order of title.
C5_RankOrder ==
  (content = "rows")
  => \A i, j \in DOMAIN rows :
       i < j => \/ ranked[i].s > ranked[j].s
                \/ /\ ranked[i].s = ranked[j].s
                   /\ LocaleCompare(rows[i].t, rows[j].t) <= 0

\* C6: never more than K rows (10, or 8 in part_001), and with more than K
\* scoring records the rows are the first K of the ranking by descending
\* score, then ascending title.
C6_TopK ==
  LET k == IF variant = "part1" THEN 8 ELSE 10
      InOrder(a, b) ==
        \/ a.s > b.s
        \/ a.s = b.s /\ LocaleCompare(JsString(a.it.t), JsString(b.it.t)) <= 0
  IN (content = "rows")
     => /\ Len(rows) <= k
        /\ Len(ranked) > k
             => /\ Len(rows) = k
                /\ \A i \in 1..k : \A j \in DOMAIN ranked :
                     i < j => InOrder(ranked[i], ranked[j])

C8_EmptyQueryClosed ==
  (lastEvent \in {"focus", "input"} /\ IsBlank(text))
  => (~display /\ content = "blank" /\ rows = <<>>)

\* C8's case: the index is loaded and non-empty, and the input's text has
\* just been changed to whitespace
C8_Witness ==
  /\ lastEvent = "input"
  /\ text = <<" ">>
  /\ cbRuns = 1
  /\ loaded
  /\ \E i \in DOMAIN items : ~items[i].nul
  /\ ~display

\* the alias keys an entry's url is read from
UrlValues(e) == {e.u, e.url, e.href, e.path, e.link}

\* C9: every record part_000 keeps at load time has a non-empty title and a
\* non-empty url that came from its entry.
C9_LoadedRecordsComplete ==
  (variant = "part0" /\ fetchState = "settled")
  => \A i \in DOMAIN items :
       /\ Truthy(items[i].t)
       /\ Truthy(items[i].u)
       /\ \E k \in DOMAIN resp.entries :
            \E u \in UrlValues(resp.entries[k]) : Truthy(u) /\ Trim(u) = items[i].u

\* C10: a response with a non-success status leaves the index empty, valid
\* JSON body or not.
C10_HttpErrorUnavailable ==
  (fetchState = "settled" /\ resp.net /\ ~resp.ok)
  => (items = <<>> /\ content # "rows")

\* the list the variant's success handler stores for the payload r
StoredFor(v, r) ==
  CASE v = "search" -> itemsOf_search(r)
    [] v = "part0" -> normalizeData(r)
    [] v = "part1" -> itemsOf_part1(r)

\* the fetch has settled with an ok response whose body parsed and holds no
\* null entry, and the success handler has stored its list
LoadedFromBody ==
  /\ fetchState = "settled"
  /\ resp.net /\ resp.ok /\ resp.json
  /\ \A k \in DOMAIN resp.entries : ~resp.entries[k].nul
  /\ itemsWrites = 1

\* C11: a bare array of entries loads the same record list as an object
\* whose items array holds the same entries.
C11_BothShapesAccepted ==
  LoadedFromBody => items = StoredFor(variant, [resp EXCEPT !.shape = "object"])

\* C12: after an input event that re-renders the panel, and after a close,
\* activeIndex is -1; activeIndex never points past the rendered rows.
C12_ActiveIndexReset ==
  /\ (/\ lastEvent = "input"
      /\ ~threw
      /\ (cbRuns = 1 \/ variant = "part1"))
     => activeIndex = -1
  /\ (lastEvent \in {"Escape", "outside"}) => activeIndex = -1
  /\ activeIndex < Len(rows)

\* C13: while the panel shows count >= 1 rows, activeIndex is -1 or an index
\* of a row, 0 <= activeIndex < count.
C13_ActiveIndexInRange ==
  (display /\ Len(rows) >= 1)
  => (activeIndex = -1 \/ (0 <= activeIndex /\ activeIndex < Len(rows)))

\* C13's case: two rows are shown and an ArrowDown has moved the cursor to
\* the last of them
C13_Witness ==
  /\ display
  /\ Len(rows) = 2
  /\ lastEvent = "ArrowDown"
  /\ activeIndex = 1

\* C14: a focus or input event handled before the fetch has settled, with
\* text in the input, leaves the panel open on the loading indicator.
C14_LoadingIndicator ==
  (/\ fetchState # "settled"
   /\ lastEvent \in {"focus", "input"}
   /\ ~IsBlank(text))
  => (display /\ content = "loading")

ArrowKeys == {"ArrowDown", "ArrowUp"}

\* the open panel of the current state, as each variant holds it
Panel == [Cur EXCEPT !.openFlag = display]

\* activeIndex after the key k, by each variant's keydown listener
AfterSearch(k) == keydown_search(Panel, k, text).activeIndex

AfterPart0(k) == keydown_part0(Panel, k, text).activeIndex

AfterPart1(k) == keydown_part1(Panel, k).activeIndex

\* C15 as stated: from the same open panel with the same rows and the same
\* activeIndex, an arrow key leaves the same activeIndex in all three
\* variants.
C15_SameArrowBehaviour ==
  (display /\ Len(rows) >= 1)
  => \A k \in ArrowKeys :
       AfterSearch(k) = AfterPart0(k) /\ AfterPart0(k) = AfterPart1(k)

\* C15: search.js and part_000 agree on every arrow key and clamp at the
\* edges (ArrowDown on the last row stays, ArrowUp on the first row or with
\* no row active gives the first row); part_001 agrees with them away from
\* the edges and wraps at them (ArrowDown on the last row gives the first
\* row, ArrowUp on the first row or with no row active gives the last row).
C15_ClampOrWrap ==
  (display /\ Len(rows) >= 1)
  => LET n == Len(rows)
         a == activeIndex
     IN /\ \A k \in ArrowKeys : AfterSearch(k) = AfterPart0(k)
        /\ AfterSearch("ArrowDown") = (IF a = n - 1 THEN n - 1 ELSE a + 1)
        /\ AfterPart1("ArrowDown") = (IF a = n - 1 THEN 0 ELSE a + 1)
        /\ AfterSearch("ArrowUp") = (IF a <= 0 THEN 0 ELSE a - 1)
        /\ AfterPart1("ArrowUp") = (IF a <= 0 THEN n - 1 ELSE a - 1)

\* C15's case: in part_001 an ArrowUp has wrapped to the last of two rows
C15_Witness ==
  /\ variant = "part1"
  /\ display
  /\ Len(rows) = 2
  /\ lastEvent = "ArrowUp"
  /\ activeIndex = 1

C17_ItemsWrittenOnce ==
  /\ fetchState # "settled" => itemsWrites = 0
  /\ (fetchState = "settled" /\ loaded) => itemsWrites = 1

\* C18: a handler runs the callback given to ensureLoaded at most once, and
\* the settling of the fetch runs the deferred callback exactly once.
C18_CallbackOnce ==
  /\ cbRuns <= 1
  /\ (lastEvent = "settle" /\ variant # "part1") => cbRuns = 1

\* C19: the page has navigated only on a row press or an Enter, with the
\* panel open on at least one row, and to the url of one of those rows.
C19_NavigationOnlyToRow ==
  (href # NoNav)
  => /\ lastEvent \in {"rowpress", "Enter"}
     /\ display
     /\ content = "rows"
     /\ \E i \in DOMAIN rows : rows[i].u = href

\* C19's case: a press on the second of two rows has navigated to its url
C19_Witness ==
  /\ lastEvent = "rowpress"
  /\ Len(rows) = 2
  /\ href = rows[2].u
  /\ href # rows[1].u

\* C20: in part_000 loaded and loading are never both true, loading is true
\* exactly while the fetch is in flight, and once loaded is true it stays
\* true and loading stays false.
C20_LoaderFlags ==
  [][(variant = "part0")
     => /\ ~(loaded' /\ loading')
        /\ loading' = (fetchState' = "inflight")
        /\ loaded' = (fetchState' = "settled")
        /\ loaded => (loaded' /\ ~loading')]_vars

\* C20's case: part_000 has loaded, and a later focus has gone through
\* ensureLoaded again
C20_Witness ==
  /\ variant = "part0"
  /\ loaded
  /\ ~loading
  /\ lastEvent = "focus"
  /\ cbRuns = 1

=============================================================================
